---------------------------- MODULE Spec2Model ----------------------------
(***************************************************************************)
(* Model of fake_news_app.py: the "Analyze" handler of the Streamlit page, *)
(* extract_text_from_url and classify_text_with_api with its retry loop.   *)
(*                                                                         *)
(* Representation.                                                         *)
(*   - user and article text: a sequence of one-character strings;         *)
(*   - JSON text (the HTTP body, and the message content inside it): the   *)
(*     sequence of its lexical tokens; json_loads is a recursive-descent   *)
(*     parser over the tokens;                                             *)
(*   - Python values: records tagged by type (none, num, str, text, list,  *)
(*     dict).  "str" holds a short string as an atom (a key, a label),     *)
(*     "text" holds a str that is JSON text.  Numbers are in tenths        *)
(*     (PyNum(9) is 0.9);                                                  *)
(*   - an operation that may raise returns Ok(v) or Raise(exc).            *)
(***************************************************************************)
EXTENDS Integers, Sequences, FiniteSets, TLC

VARIABLES
    pc,                 \* position of the script: idle, loop, broke, returned, or a value of Final
    input_type,         \* st.radio: "Text" or "URL"
    user_input,         \* st.text_area / st.text_input
    text_to_classify,   \* the argument of classify_text_with_api
    i,                  \* loop variable of `for i in range(retries)`
    response,           \* outcome of the last requests.post
    api_result,         \* value returned by classify_text_with_api
    verdict,            \* what the output panel shows (lines 152-175)
    fetched,            \* what downloading and parsing the article came to
    calls,              \* invocations of classify_text_with_api in this run
    events              \* requests, responses, sleeps and st.* messages of this run, in order

vars == <<pc, input_type, user_input, text_to_classify, i, response,
          api_result, verdict, fetched, calls, events>>

-----------------------------------------------------------------------------
(* Program constants *)

retries == 3

TextLimit == 2000

(* Bound of the model: how far its long article texts run past TextLimit. *)
Overrun == 2

-----------------------------------------------------------------------------
(* Python values *)

PyNone == [t |-> "none"]

PyNum(n) == [t |-> "num", n |-> n]

PyStr(s) == [t |-> "str", s |-> s]

PyText(toks) == [t |-> "text", toks |-> toks]

PyList(xs) == [t |-> "list", xs |-> xs]

PyDict(d) == [t |-> "dict", d |-> d]

Unset == [t |-> "unset"]

Ok(v) == [ok |-> TRUE, v |-> v]

Raise(exc) == [ok |-> FALSE, exc |-> exc]

(* bool(v) *)
Truthy(v) ==
    CASE v.t = "none" -> FALSE
      [] v.t = "num"  -> v.n # 0
      [] v.t = "str"  -> v.s # ""
      [] v.t = "text" -> v.toks # <<>>
      [] v.t = "list" -> v.xs # <<>>
      [] v.t = "dict" -> DOMAIN v.d # {}

(* `key in v` for a str key.  For a str v this is the substring test; the  *)
(* atoms the model draws either equal the key or share no part with it.    *)
PyIn(key, v) ==
    CASE v.t = "dict" -> Ok(key \in DOMAIN v.d)
      [] v.t = "list" -> Ok(\E k \in 1..Len(v.xs) : v.xs[k] = PyStr(key))
      [] v.t = "str"  -> Ok(v.s = key)
      [] v.t = "text" -> Ok(FALSE)
      [] v.t \in {"none", "num"} -> Raise("TypeError")

(* v[key] for a str key *)
GetKey(v, key) ==
    CASE v.t = "dict" -> IF key \in DOMAIN v.d THEN Ok(v.d[key]) ELSE Raise("KeyError")
      [] v.t \in {"list", "str", "text", "none", "num"} -> Raise("TypeError")

(* v[0] *)
GetFirst(v) ==
    CASE v.t = "list" -> IF v.xs # <<>> THEN Ok(v.xs[1]) ELSE Raise("IndexError")
      [] v.t = "dict" -> Raise("KeyError")
      [] v.t \in {"none", "num"} -> Raise("TypeError")

(* v.get(key, default) on a dict *)
DictGet(v, key, default) ==
    IF key \in DOMAIN v.d THEN v.d[key] ELSE default

-----------------------------------------------------------------------------
(* JSON text as tokens *)

Tok(k) == [k |-> k]

LBrace == Tok("{")

RBrace == Tok("}")

LBracket == Tok("[")

RBracket == Tok("]")

Colon == Tok(":")

Comma == Tok(",")

NullTok == Tok("null")

(* Text that is no JSON token: prose, a markdown fence, an HTML page. *)
Junk == Tok("junk")

StrTok(s) == [k |-> "string", s |-> s]

NumTok(n) == [k |-> "number", n |-> n]

(* A JSON string whose characters are themselves JSON text (the escaped    *)
(* message content inside the HTTP body).                                  *)
TextTok(toks) == [k |-> "string_text", toks |-> toks]

ParseFail == [ok |-> FALSE]

Parsed(v, next) == [ok |-> TRUE, v |-> v, next |-> next]

RECURSIVE ParseValue(_, _)
RECURSIVE ParseElems(_, _, _, _)
RECURSIVE ParseMembers(_, _, _, _)

(* One JSON value starting at toks[p]. *)
ParseValue(toks, p) ==
    IF p > Len(toks) THEN ParseFail
    ELSE LET tk == toks[p] IN
         CASE tk.k = "string"      -> Parsed(PyStr(tk.s), p + 1)
           [] tk.k = "string_text" -> Parsed(PyText(tk.toks), p + 1)
           [] tk.k = "number"      -> Parsed(PyNum(tk.n), p + 1)
           [] tk.k = "null"        -> Parsed(PyNone, p + 1)
           [] tk.k = "["           -> ParseElems(toks, p + 1, <<>>, TRUE)
           [] tk.k = "{"           -> ParseMembers(toks, p + 1, <<>>, TRUE)
           [] OTHER                -> ParseFail

(* The elements of an array, after "[" (first) or after ",". *)
ParseElems(toks, p, acc, first) ==
    IF p > Len(toks) THEN ParseFail
    ELSE IF first /\ toks[p].k = "]" THEN Parsed(PyList(acc), p + 1)
    ELSE LET r == ParseValue(toks, p) IN
         IF ~r.ok \/ r.next > Len(toks) THEN ParseFail
         ELSE IF toks[r.next].k = ","
              THEN ParseElems(toks, r.next + 1, Append(acc, r.v), FALSE)
         ELSE IF toks[r.next].k = "]"
              THEN Parsed(PyList(Append(acc, r.v)), r.next + 1)
         ELSE ParseFail

(* The members of an object, after "{" (first) or after ",".  A repeated   *)
(* key keeps its last value.                                               *)
ParseMembers(toks, p, acc, first) ==
    IF p > Len(toks) THEN ParseFail
    ELSE IF first /\ toks[p].k = "}" THEN Parsed(PyDict(acc), p + 1)
    ELSE IF toks[p].k # "string" \/ p + 1 > Len(toks) THEN ParseFail
    ELSE IF toks[p + 1].k # ":" THEN ParseFail
    ELSE LET r == ParseValue(toks, p + 2) IN
         IF ~r.ok \/ r.next > Len(toks) THEN ParseFail
         ELSE LET d == (toks[p].s :> r.v) @@ acc IN
              IF toks[r.next].k = ","
              THEN ParseMembers(toks, r.next + 1, d, FALSE)
              ELSE IF toks[r.next].k = "}"
              THEN Parsed(PyDict(d), r.next + 1)
              ELSE ParseFail

(* The decoder behind response.json() and json.loads: the whole text must  *)
(* be one value.                                                           *)
Decode(toks) ==
    LET r == ParseValue(toks, 1) IN
    IF r.ok /\ r.next = Len(toks) + 1 THEN Ok(r.v) ELSE Raise("JSONDecodeError")

(* Variant: the message content returned as received, never decoded. *)
json_loads_skipped(v) == Ok(v)

(* json.loads(v) *)
json_loads(v) ==
    IF v.t = "text" THEN Decode(v.toks) ELSE Raise("TypeError")

-----------------------------------------------------------------------------
(* ClassificationResult values and their JSON encoding (the format the     *)
(* prompt asks the remote model for).                                      *)

Result(p, r, f) ==
    PyDict([prediction |-> PyStr(p), real_confidence |-> PyNum(r),
            fake_confidence |-> PyNum(f)])

ErrorResult == Result("Error", 0, 0)

Verdicts == {"True", "Fake", "Unverifiable"}

Predictions == Verdicts \cup {"Error"}

Confidences == {<<1, 9>>, <<10, 0>>}

WellFormedResults == {Result(p, c[1], c[2]) : p \in Verdicts, c \in Confidences}

EncodeResult(R) ==
    << LBrace, StrTok("prediction"), Colon, StrTok(R.d.prediction.s), Comma,
       StrTok("real_confidence"), Colon, NumTok(R.d.real_confidence.n), Comma,
       StrTok("fake_confidence"), Colon, NumTok(R.d.fake_confidence.n), RBrace >>

(* Message contents that are JSON but not a ClassificationResult. *)
WrongShapeContents ==
    { << LBrace, StrTok("real_confidence"), Colon, NumTok(5), Comma,
         StrTok("fake_confidence"), Colon, NumTok(5), RBrace >>,
      EncodeResult(Result("Banana", 5, 5)),
      << LBrace, RBrace >>,
      << LBracket, RBracket >>,
      << LBracket, StrTok("prediction"), Comma, NumTok(1), RBracket >>,
      << NullTok >>,
      << StrTok("Fake") >>,
      << NumTok(7) >> }

(* Message contents that are not JSON. *)
InvalidContents ==
    { << >>,
      << Junk, LBrace, StrTok("prediction"), Colon, StrTok("Fake"), RBrace, Junk >>,
      << LBrace, StrTok("prediction"), StrTok("Fake"), RBrace >>,
      << LBrace, StrTok("prediction"), Colon, StrTok("Fake") >>,
      << LBrace, StrTok("prediction"), Colon, StrTok("Fake"), Comma, RBrace >> }

(* A result the remote model labels "Error" itself, and one with a field   *)
(* more than the three.                                                    *)
OtherContents ==
    { EncodeResult(Result("Error", 3, 3)),
      << LBrace, StrTok("prediction"), Colon, StrTok("True"), Comma,
         StrTok("prediction"), Colon, StrTok("Fake"), RBrace >>,
      << LBrace, StrTok("prediction"), Colon, StrTok("Unverifiable"), Comma,
         StrTok("real_confidence"), Colon, NullTok, RBrace >> }

Contents ==
    {EncodeResult(R) : R \in WellFormedResults}
        \cup WrongShapeContents \cup InvalidContents \cup OtherContents

(* The body {"choices":[{"message":{"content": c}}]} with c given as the   *)
(* tokens of one JSON value.                                               *)
ChatBody(c) ==
    << LBrace, StrTok("choices"), Colon, LBracket, LBrace, StrTok("message"), Colon,
       LBrace, StrTok("content"), Colon >> \o c \o << RBrace, RBrace, RBracket, RBrace >>

ChoicesBody(c) == << LBrace, StrTok("choices"), Colon >> \o c \o << RBrace >>

(* Bodies of a 2xx response that carry no message content. *)
OddBodies ==
    { << >>,
      << Junk >>,
      << LBrace, StrTok("choices") >>,
      << NullTok >>,
      << NumTok(7) >>,
      << NumTok(0) >>,
      << StrTok("choices") >>,
      << StrTok("ok") >>,
      << LBracket, RBracket >>,
      << LBracket, StrTok("choices"), RBracket >>,
      << LBrace, RBrace >>,
      << LBrace, StrTok("error"), Colon, StrTok("x"), RBrace >>,
      ChoicesBody(<< LBracket, RBracket >>),
      ChoicesBody(<< NullTok >>),
      ChoicesBody(<< NumTok(7) >>),
      ChoicesBody(<< LBrace, StrTok("a"), Colon, NumTok(1), RBrace >>),
      ChoicesBody(<< LBracket, LBrace, RBrace, RBracket >>),
      ChoicesBody(<< LBracket, NullTok, RBracket >>),
      ChoicesBody(<< LBracket, LBrace, StrTok("message"), Colon, LBrace, RBrace,
                     RBrace, RBracket >>),
      ChatBody(<< NullTok >>),
      ChatBody(<< NumTok(7) >>) }

Bodies == {ChatBody(<< TextTok(c) >>) : c \in Contents} \cup OddBodies

Http(status, body) == [kind |-> "http", status |-> status, body |-> body]

(* requests.post raised before any status was received. *)
TransportFailure == [kind |-> "transport", status |-> 0, body |-> << >>]

NoResponse == [kind |-> "none", status |-> 0, body |-> << >>]

ErrorStatuses == {400, 401, 404, 429, 500, 503}

Responses ==
    {TransportFailure}
        \cup {Http(s, << Junk >>) : s \in ErrorStatuses}
        \cup {Http(200, b) : b \in Bodies}
        \cup {Http(204, << >>)}

-----------------------------------------------------------------------------
(* classify_text_with_api *)

Ev(e, m, n) == [e |-> e, m |-> m, n |-> n]

(* Exception classes and their base class. *)
ExcBase ==
    [ HTTPError        |-> "RequestException",
      ConnectionError  |-> "RequestException",
      RequestException |-> "OSError",
      OSError          |-> "Exception",
      JSONDecodeError  |-> "ValueError",
      ValueError       |-> "Exception",
      KeyError         |-> "LookupError",
      IndexError       |-> "LookupError",
      LookupError      |-> "Exception",
      TypeError        |-> "Exception",
      Exception        |-> "BaseException" ]

RECURSIVE IsSubclass(_, _)
IsSubclass(exc, cls) ==
    \/ exc = cls
    \/ exc \in DOMAIN ExcBase /\ IsSubclass(ExcBase[exc], cls)

(* Variant: the second clause narrowed to the exceptions of requests. *)
ExceptClauses_requests_only == << "HTTPError", "RequestException" >>

(* The except clauses of the try statement, in order. *)
ExceptClauses == << "HTTPError", "Exception" >>

(* response.raise_for_status() *)
raise_for_status(resp) ==
    IF 400 <= resp.status /\ resp.status < 600 THEN Raise("HTTPError") ELSE Ok(resp)

(* response.json() *)
response_json(resp) == Decode(resp.body)

(* result and "choices" in result and result["choices"] *)
HasChoices(result) ==
    IF ~Truthy(result) THEN Ok(FALSE)
    ELSE LET c == PyIn("choices", result) IN
         IF ~c.ok THEN c
         ELSE IF ~c.v THEN Ok(FALSE)
         ELSE LET g == GetKey(result, "choices") IN
              IF ~g.ok THEN g ELSE Ok(Truthy(g.v))

(* result["choices"][0]["message"]["content"] *)
MessageContent(result) ==
    LET a == GetKey(result, "choices") IN
    IF ~a.ok THEN a
    ELSE LET b == GetFirst(a.v) IN
         IF ~b.ok THEN b
         ELSE LET c == GetKey(b.v, "message") IN
              IF ~c.ok THEN c ELSE GetKey(c.v, "content")

Returns(v, ev) == [k |-> "return", v |-> v, ev |-> ev]

Raises(exc) == [k |-> "raise", exc |-> exc]

(* The body of the try statement for the response of one request: it       *)
(* returns a value or raises.                                              *)
TryBody(resp) ==
    IF resp.kind = "transport" THEN Raises("ConnectionError")
    ELSE IF ~raise_for_status(resp).ok THEN Raises(raise_for_status(resp).exc)
    ELSE LET j == response_json(resp) IN
         IF ~j.ok THEN Raises(j.exc)
         ELSE LET h == HasChoices(j.v) IN
              IF ~h.ok THEN Raises(h.exc)
              ELSE IF h.v
              THEN LET m == MessageContent(j.v) IN
                   IF ~m.ok THEN Raises(m.exc)
                   ELSE LET l == json_loads(m.v) IN
                        IF ~l.ok THEN Raises(l.exc) ELSE Returns(l.v, << >>)
              ELSE Returns(ErrorResult, << Ev("error", "empty_or_malformed", 0) >>)

(* Variant: a delay that grows by two seconds instead of doubling. *)
Backoff_linear(k) == 2 * (k + 1)

(* Variant: 2**i, the delays starting at one second. *)
Backoff_from_one(k) == 2 ^ k

(* 2**(i+1) *)
Backoff(k) == 2 ^ (k + 1)

(* Variant: 503 Service Unavailable retried like 429. *)
OnHTTPError_retry_503(resp, k) ==
    IF resp.status \in {429, 503}
    THEN [k |-> "continue",
          ev |-> << Ev("warning", "rate_limit_retrying", 2 ^ (k + 1)),
                    Ev("sleep", "", 2 ^ (k + 1)) >>]
    ELSE [k |-> "break", ev |-> << Ev("error", "http_error", resp.status) >>]

(* The body of `except requests.exceptions.HTTPError as err`. *)
OnHTTPError(resp, k) ==
    IF resp.status = 429
    THEN [k |-> "continue",
          ev |-> << Ev("warning", "rate_limit_retrying", Backoff(k)),
                    Ev("sleep", "", Backoff(k)) >>]
    ELSE [k |-> "break", ev |-> << Ev("error", "http_error", resp.status) >>]

(* The body of `except Exception as e`. *)
OnException(resp, k) ==
    [k |-> "break", ev |-> << Ev("error", "api_call_error", 0) >>]

(* The first except clause that matches exc, 0 when none does. *)
MatchingClause(exc) ==
    IF \E c \in 1..Len(ExceptClauses) : IsSubclass(exc, ExceptClauses[c])
    THEN CHOOSE c \in 1..Len(ExceptClauses) :
            /\ IsSubclass(exc, ExceptClauses[c])
            /\ \A b \in 1..(c - 1) : ~IsSubclass(exc, ExceptClauses[b])
    ELSE 0

Handle(exc, resp, k) ==
    CASE MatchingClause(exc) = 1 -> OnHTTPError(resp, k)
      [] MatchingClause(exc) = 2 -> OnException(resp, k)
      [] OTHER -> [k |-> "propagate", ev |-> << >>]

(* One iteration of `for i in range(retries)`: the request, the try body   *)
(* and, when it raises, the except clause.                                 *)
Attempt ==
    /\ pc = "loop"
    /\ i < retries
    /\ \E resp \in Responses :
         LET out == TryBody(resp)
             sent == << Ev("request", "", i + 1), Ev("response", resp.kind, resp.status) >>
         IN  /\ response' = resp
             /\ IF out.k = "return"
                THEN /\ pc' = "returned"
                     /\ api_result' = out.v
                     /\ events' = events \o sent \o out.ev
                     /\ i' = i
                ELSE LET h == Handle(out.exc, resp, i) IN
                     /\ events' = events \o sent \o h.ev
                     /\ api_result' = api_result
                     /\ CASE h.k = "continue"  -> pc' = "loop" /\ i' = i + 1
                          [] h.k = "break"     -> pc' = "broke" /\ i' = i
                          [] h.k = "propagate" -> pc' = "raised" /\ i' = i
    /\ UNCHANGED << input_type, user_input, text_to_classify, verdict, fetched, calls >>

(* The return after the loop, reached by break or when the range is        *)
(* exhausted.                                                              *)
ReturnError ==
    /\ pc = "broke" \/ (pc = "loop" /\ i >= retries)
    /\ pc' = "returned"
    /\ api_result' = ErrorResult
    /\ UNCHANGED << input_type, user_input, text_to_classify, i, response, verdict,
                    fetched, calls, events >>

-----------------------------------------------------------------------------
(* Text *)

Fill(n, ch) == [k \in 1..n |-> ch]

(* text[:n] *)
Take(text, n) == SubSeq(text, 1, IF Len(text) < n THEN Len(text) ELSE n)

(* needle in hay *)
Contains(needle, hay) ==
    \E k \in 0..(Len(hay) - Len(needle)) : SubSeq(hay, k + 1, k + Len(needle)) = needle

Whitespace == {" ", "\t", "\n"}

(* text.strip() is empty *)
StripsToEmpty(text) == \A k \in 1..Len(text) : text[k] \in Whitespace

Marker == << "E", "r", "r", "o", "r" >>

ErrorPrefix ==
    << "E", "r", "r", "o", "r", " ", "f", "e", "t", "c", "h", "i", "n", "g", " ",
       "U", "R", "L", ":", " " >>

News == << "n", "e", "w", "s" >>

AnError == << "A", "n", " ", "E", "r", "r", "o", "r" >>

Url == << "h", "t", "t", "p" >>

UserInputs == { << >>, << " ", "\n" >>, News, AnError, Url }

ArticleTexts ==
    { << >>,
      News,
      AnError,
      << "e", "r", "r", "o", "r", "s" >>,
      Fill(TextLimit + Overrun, "a"),
      Fill(TextLimit - 3, "a") \o Marker,
      Fill(TextLimit, "a") \o Marker,
      Fill(TextLimit - 5, "a") \o Marker \o Fill(Overrun, "b") }

(* str(e) of the exception that download or parse raised *)
FetchErrors == { << >>, << "4", "0", "4" >> }

Fetched(text) == [kind |-> "ok", text |-> text]

FetchFailed(msg) == [kind |-> "failed", text |-> msg]

NoFetch == [kind |-> "none", text |-> << >>]

FetchOutcomes ==
    {Fetched(t) : t \in ArticleTexts} \cup {FetchFailed(m) : m \in FetchErrors}

-----------------------------------------------------------------------------
(* extract_text_from_url and the Analyze handler *)

extract_text_from_url(o) ==
    IF o.kind = "ok" THEN Take(o.text, TextLimit) ELSE ErrorPrefix \o o.text

(* not user_input or not user_input.strip() *)
IsBlank(text) == text = << >> \/ StripsToEmpty(text)

(* Variant: the marker looked for in lower case. *)
AcquisitionFailed_lowercase(text) == Contains(<< "e", "r", "r", "o", "r" >>, text)

(* "Error" in text_to_classify *)
AcquisitionFailed(text) == Contains(Marker, text)

Final == {"blank", "stopped", "failed", "rendered", "crashed", "raised"}

Init ==
    /\ pc = "idle"
    /\ input_type = "Text"
    /\ user_input = << >>
    /\ text_to_classify = << >>
    /\ i = 0
    /\ response = NoResponse
    /\ api_result = Unset
    /\ verdict = Unset
    /\ fetched = NoFetch
    /\ calls = 0
    /\ events = << >>

(* Analyze pressed with nothing to analyze. *)
AnalyzeBlank ==
    /\ pc = "idle"
    /\ \E t \in {"Text", "URL"}, u \in UserInputs :
         /\ IsBlank(u)
         /\ input_type' = t
         /\ user_input' = u
    /\ events' = << Ev("warning", "provide_input", 0) >>
    /\ pc' = "blank"
    /\ UNCHANGED << text_to_classify, i, response, api_result, verdict, fetched, calls >>

(* Analyze pressed in Text mode: classify_text_with_api is entered. *)
AnalyzeText ==
    /\ pc = "idle"
    /\ \E u \in UserInputs :
         /\ ~IsBlank(u)
         /\ input_type' = "Text"
         /\ user_input' = u
         /\ text_to_classify' = u
    /\ calls' = calls + 1
    /\ i' = 0
    /\ pc' = "loop"
    /\ UNCHANGED << response, api_result, verdict, fetched, events >>

(* Analyze pressed in URL mode: the article is fetched, and either the     *)
(* script stops or classify_text_with_api is entered.                      *)
AnalyzeURL ==
    /\ pc = "idle"
    /\ \E u \in UserInputs, o \in FetchOutcomes :
         LET text == extract_text_from_url(o) IN
         /\ ~IsBlank(u)
         /\ input_type' = "URL"
         /\ user_input' = u
         /\ fetched' = o
         /\ text_to_classify' = text
         /\ IF AcquisitionFailed(text)
            THEN /\ events' = << Ev("error", "acquisition", 0) >>
                 /\ pc' = "stopped"
                 /\ calls' = calls
            ELSE /\ events' = events
                 /\ pc' = "loop"
                 /\ calls' = calls + 1
    /\ i' = 0
    /\ UNCHANGED << response, api_result, verdict >>

(* The caption under the prediction. *)
Caption(prediction) ==
    CASE prediction = PyStr("True")         -> "REAL NEWS"
      [] prediction = PyStr("Fake")         -> "FAKE NEWS"
      [] prediction = PyStr("Unverifiable") -> "Unable to make a definitive prediction"
      [] OTHER                              -> ""

(* What the handler does with the value classify_text_with_api returned. *)
ShowResult ==
    /\ pc = "returned"
    /\ LET p == GetKey(api_result, "prediction") IN
       IF ~p.ok
       THEN /\ pc' = "crashed"
            /\ UNCHANGED << verdict, events >>
       ELSE IF p.v = PyStr("Error")
       THEN /\ pc' = "failed"
            /\ events' = Append(events, Ev("error", "no_valid_response", 0))
            /\ UNCHANGED verdict
       ELSE LET prediction == DictGet(api_result, "prediction", PyStr("N/A"))
                real_prob  == DictGet(api_result, "real_confidence", PyNum(0))
                fake_prob  == DictGet(api_result, "fake_confidence", PyNum(0))
            IN  /\ pc' = "rendered"
                /\ events' = Append(events, Ev("success", "analysis_complete", 0))
                /\ verdict' = [ t          |-> "verdict",
                                url        |-> input_type = "URL",
                                prediction |-> prediction,
                                caption    |-> Caption(prediction),
                                bars       |-> IF real_prob # PyNone /\ fake_prob # PyNone
                                               THEN << real_prob, fake_prob >>
                                               ELSE << >> ]
    /\ UNCHANGED << input_type, user_input, text_to_classify, i, response, api_result,
                    fetched, calls >>

(* The next interaction reruns the script from the top. *)
Rerun ==
    /\ pc \in Final
    /\ pc' = "idle"
    /\ input_type' = "Text"
    /\ user_input' = << >>
    /\ text_to_classify' = << >>
    /\ response' = NoResponse
    /\ api_result' = Unset
    /\ verdict' = Unset
    /\ fetched' = NoFetch
    /\ calls' = 0
    /\ events' = << >>
    /\ UNCHANGED i

Next ==
    \/ AnalyzeBlank
    \/ AnalyzeText
    \/ AnalyzeURL
    \/ Attempt
    \/ ReturnError
    \/ ShowResult
    \/ Rerun

Spec == Init /\ [][Next]_vars

(* The script is synchronous and single-threaded: once classify is entered *)
(* it runs on to its return, and the handler then goes on to show the      *)
(* result.  Pressing Analyze and rerunning are the user's and carry no     *)
(* fairness.                                                               *)
FairSpec ==
    Spec /\ WF_vars(Attempt) /\ WF_vars(ReturnError) /\ WF_vars(ShowResult)

-----------------------------------------------------------------------------
(* Observations on the events of the current run *)

Select(kind) == SelectSeq(events, LAMBDA x : x.e = kind)

Requests == Len(Select("request"))

Delays(kind) == [k \in 1..Len(Select(kind)) |-> Select(kind)[k].n]

(* classify_text_with_api has returned a value to the handler. *)
CallReturned == pc \in {"returned", "failed", "rendered", "crashed"}

IsRateLimited(ev) == ev.e = "response" /\ ev.m = "http" /\ ev.n = 429

ContentBodies(cs) == {ChatBody(<< TextTok(c) >>) : c \in cs}

(* The failures of one attempt: transport failure, an HTTP error status, a *)
(* 200 whose body is not JSON, whose choices are missing or empty, or      *)
(* whose message content is not JSON.                                      *)
AttemptFailed(resp) ==
    \/ resp.kind = "transport"
    \/ resp.kind = "http" /\ resp.status \in ErrorStatuses
    \/ /\ resp.kind = "http" /\ resp.status = 200
       /\ \/ resp.body \in { << >>, << Junk >>, << LBrace, StrTok("choices") >> }
          \/ resp.body \in { << LBrace, RBrace >>,
                             << LBrace, StrTok("error"), Colon, StrTok("x"), RBrace >>,
                             ChoicesBody(<< LBracket, RBracket >>) }
          \/ resp.body \in ContentBodies(InvalidContents)

-----------------------------------------------------------------------------
(* C1: classify_text_with_api never lets an exception reach its caller;    *)
(* it always returns a value, and when its last attempt ended in transport *)
(* failure, an HTTP error status, a 200 with a non-JSON body, a 200 with   *)
(* missing or empty choices, or a 200 with non-JSON message content, the   *)
(* value is exactly {prediction: Error, real: 0.0, fake: 0.0}.             *)
C1_NeverThrows ==
    /\ pc # "raised"
    /\ CallReturned => api_result # Unset
    /\ (CallReturned /\ AttemptFailed(response)) => api_result = ErrorResult

C1_Witness ==
    /\ pc = "returned"
    /\ response.status = 200
    /\ response.body \in ContentBodies(InvalidContents)
    /\ api_result = ErrorResult

(* C2: when every request is answered 429, one call issues exactly 3       *)
(* requests, sleeps 2, 4 and 8 seconds, warns once per rate-limited        *)
(* attempt, and returns the Error result.                                  *)
C2_AllRateLimited ==
    (CallReturned /\ \A k \in 1..Len(Select("response")) : IsRateLimited(Select("response")[k]))
        => /\ Requests = 3
           /\ Delays("sleep") = << 2, 4, 8 >>
           /\ Delays("warning") = << 2, 4, 8 >>
           /\ api_result = ErrorResult

C2_Witness ==
    /\ pc = "returned"
    /\ Requests = 3
    /\ \A k \in 1..3 : IsRateLimited(Select("response")[k])

(* C3: only a 429 response is followed by another request; after any       *)
(* other HTTP error status or a transport failure there is no further      *)
(* request, no warning and no sleep, and the call returns the Error        *)
(* result (one attempt when the first response is a 500).                  *)
C3_OnlyRateLimitRetries ==
    /\ \A k \in 1..Len(events) :
          (events[k].e = "response" /\ ~IsRateLimited(events[k]))
              => \A j \in (k + 1)..Len(events) :
                    events[j].e \notin {"request", "sleep", "warning"}
    /\ (pc = "loop" /\ events # << >>) => (response.kind = "http" /\ response.status = 429)
    /\ (CallReturned /\ (response.kind = "transport" \/ response.status \in ErrorStatuses))
          => api_result = ErrorResult

C3_Witness ==
    /\ pc = "returned"
    /\ response = Http(500, << Junk >>)
    /\ Requests = 1
    /\ Len(Select("sleep")) = 0
    /\ api_result = ErrorResult

(* C4: the value classify_text_with_api returns always has a prediction    *)
(* field whose value is one of True, Fake, Unverifiable, Error.            *)
C4_PredictionEnumerated ==
    CallReturned
        => /\ api_result.t = "dict"
           /\ "prediction" \in DOMAIN api_result.d
           /\ api_result.d["prediction"] \in {PyStr(p) : p \in Predictions}

(* C5: when an attempt receives a 200 whose message content is the JSON    *)
(* encoding of a well-formed result R, the call returns exactly R and      *)
(* issues no further request, on the first attempt or after 429s.          *)
C5_RoundTrip ==
    \A R \in WellFormedResults :
        response = Http(200, ChatBody(<< TextTok(EncodeResult(R)) >>))
            => /\ CallReturned
               /\ api_result = R
               /\ DOMAIN api_result.d = {"prediction", "real_confidence", "fake_confidence"}
               /\ \A k \in 1..Len(events) :
                     events[k] = Ev("response", "http", 200)
                         => \A j \in (k + 1)..Len(events) :
                               events[j].e \notin {"request", "sleep", "warning"}

C5_Witness ==
    /\ pc = "returned"
    /\ Requests = 3
    /\ api_result = Result("Fake", 1, 9)
    /\ response = Http(200, ChatBody(<< TextTok(EncodeResult(Result("Fake", 1, 9))) >>))

(* C6: in URL mode, when downloading or parsing the article fails,         *)
(* extract_text_from_url returns a string carrying the failure marker, the *)
(* script stops, classify_text_with_api is not invoked and no request is   *)
(* sent.                                                                   *)
C6_FailedFetchAborts ==
    fetched.kind = "failed"
        => /\ Contains(Marker, text_to_classify)
           /\ pc = "stopped"
           /\ calls = 0
           /\ Requests = 0
           /\ api_result = Unset

C6_Witness ==
    /\ fetched.kind = "failed"
    /\ pc = "stopped"
    /\ input_type = "URL"
    /\ events = << Ev("error", "acquisition", 0) >>

(* C7: every run that ends without a rendered verdict has emitted at least *)
(* one warning or error message, and whenever classify_text_with_api was   *)
(* invoked in such a run the value it handed to the handler is a result    *)
(* whose prediction is Error.                                              *)
C7_NoSilentFailure ==
    (pc \in Final /\ verdict = Unset)
        => /\ Len(Select("warning")) + Len(Select("error")) >= 1
           /\ calls > 0 => GetKey(api_result, "prediction") = Ok(PyStr("Error"))

RequestsBoundedAndSpaced ==
    /\ Requests <= retries
    /\ CallReturned => Requests >= 1
    /\ pc = "loop" => i = Requests
    /\ \A k \in 1..Len(events) :
          events[k].e = "request"
              => IF k = 1 THEN events[k].n = 1
                 ELSE /\ k > 4
                      /\ events[k - 4] = Ev("request", "", events[k].n - 1)
                      /\ IsRateLimited(events[k - 3])
                      /\ events[k - 2].e = "warning"
                      /\ events[k - 1] = Ev("sleep", "", 2 ^ (events[k].n - 1))
    /\ \A k \in 1..Len(Select("request")) : Select("request")[k].n = k

(* C8: one call issues between 1 and 3 requests and then returns; request *)
(* k+1 is issued only after request k was answered 429 and 2^k seconds     *)
(* were slept; the numbering starts at 1 again in every call.              *)
C8_BoundedBackoff ==
    /\ []RequestsBoundedAndSpaced
    /\ (pc = "loop") ~> CallReturned

C8_Witness ==
    /\ CallReturned
    /\ Requests = 3
    /\ Delays("sleep") = << 2, 4 >>
    /\ response.status = 200

(* C9: every sleep is followed by another request in the same call: there  *)
(* is no warning or sleep after the final attempt, and the number of       *)
(* sleeps is the number of retries, at most 2.                             *)
C9_SleepOnlyBeforeRetry ==
    CallReturned
        => /\ Len(Select("sleep")) = Requests - 1
           /\ Len(Select("sleep")) <= 2
           /\ \A k \in 1..Len(events) :
                 events[k].e = "sleep"
                     => \E j \in (k + 1)..Len(events) : events[j].e = "request"

(* C10: in URL mode with non-blank input classify_text_with_api is invoked *)
(* if and only if the article was fetched, whatever its text, and with the *)
(* first 2000 characters of that text; in Text mode it is invoked with the *)
(* user's text.                                                            *)
C10_ClassifyIffFetched ==
    /\ (input_type = "URL" /\ pc \notin {"idle", "blank"})
          => /\ calls > 0 <=> fetched.kind = "ok"
             /\ calls > 0 => text_to_classify = Take(fetched.text, TextLimit)
    /\ (input_type = "Text" /\ pc \notin {"idle", "blank"})
          => calls = 1 /\ text_to_classify = user_input

=============================================================================
